---- MODULE Spec2Model ----
(***************************************************************************)
(* Model of the news-classification pipeline of breaking-bad:              *)
(* Orchestrator.process_file and its helpers, BaseAgent.process, the       *)
(* FinalizerAgent, the Database wrapper over one MongoDB collection, and   *)
(* the polling loop of main.py.                                            *)
(*                                                                         *)
(* Text that the code transforms character by character (mapping keys in   *)
(* _sanitize_mongo_keys, recipient names in _slugify) is a sequence of     *)
(* one-character strings.  A JSON value is a tagged record:                *)
(*   [t |-> "str",  v |-> <<chars>>]                                       *)
(*   [t |-> "bool", v |-> TRUE]                                            *)
(*   [t |-> "list", v |-> <<values>>]                                      *)
(*   [t |-> "dict", v |-> <<  <<key, value>>, ... >>]  (insertion order)   *)
(***************************************************************************)
EXTENDS Integers, Sequences, FiniteSets, TLC

\* ------------------------------------------------------------------ bounds
\* arrivals in the feed plus failures of the store, the file system or the
\* generation service, in one behaviour
MaxEvents == 3

\* nodes (mappings, sequences, scalars) of a value given to _sanitize_mongo_keys
MaxNodes == 4

\* ------------------------------------------------------------ JSON values
JStr(s) == [t |-> "str", v |-> s]
JBool(b) == [t |-> "bool", v |-> b]
JInt(n) == [t |-> "int", v |-> n]
JList(s) == [t |-> "list", v |-> s]
JDict(items) == [t |-> "dict", v |-> items]

\* isinstance(x, dict) / isinstance(x, list)
IsDict(x) == x.t = "dict"
IsList(x) == x.t = "list"

\* k in d
HasKey(d, k) == \E i \in 1..Len(d.v) : d.v[i][1] = k

\* d.get(k, default)
DictGet(d, k, default) ==
    IF HasKey(d, k)
    THEN d.v[CHOOSE i \in 1..Len(d.v) : d.v[i][1] = k][2]
    ELSE default

\* d[k] = val on an insertion-ordered dict: an existing key keeps its place
DictPut(items, k, val) ==
    IF \E i \in 1..Len(items) : items[i][1] = k
    THEN [i \in 1..Len(items) |-> IF items[i][1] = k THEN <<k, val>> ELSE items[i]]
    ELSE Append(items, <<k, val>>)

\* str.replace(old, new) for a one-character old and new
Replace(s, old, new) == [i \in 1..Len(s) |-> IF s[i] = old THEN new ELSE s[i]]

\* ------------------------------------------------------- key and text names
K_error == <<"e","r","r","o","r">>
K_is_safe == <<"i","s","_","s","a","f","e">>
K_final_recipients == <<"f","i","n","a","l","_","r","e","c","i","p","i","e","n","t","s">>
K_level == <<"l","e","v","e","l">>
K_score == <<"s","c","o","r","e">>
K_main_topic == <<"m","a","i","n","_","t","o","p","i","c">>
K_type == <<"t","y","p","e">>
K_recipients == <<"r","e","c","i","p","i","e","n","t","s">>
K_dotted == <<"n","o","t","e",".","1">>
K_dollar == <<"$","r","e","f">>

T_Legal == <<"L","e","g","a","l">>
T_legal == <<"l","e","g","a","l">>
T_HR == <<"H","R">>
T_High == <<"H","i","g","h">>
T_llm == <<"l","l","m">>
T_AllEmployees == <<"A","l","l"," ","E","m","p","l","o","y","e","e","s">>

\* --------------------------------------------------------------- sanitizer
RECURSIVE sanitize_items(_, _), sanitize_list(_), sanitize_mongo_keys(_)

\* replace called with old and new exchanged: '_' is rewritten
sanitize_items_swapped(items, acc) ==
    IF items = <<>> THEN acc
    ELSE sanitize_items(Tail(items),
            DictPut(acc,
                    Replace(Replace(Head(items)[1], "_", "."), "_", "$"),
                    sanitize_mongo_keys(Head(items)[2])))

\* the dict comprehension: items in order, a repeated new key overwrites
sanitize_items(items, acc) ==
    IF items = <<>> THEN acc
    ELSE sanitize_items(Tail(items),
            DictPut(acc,
                    Replace(Replace(Head(items)[1], ".", "_"), "$", "_"),
                    sanitize_mongo_keys(Head(items)[2])))

\* the elements of a sequence are returned as they are
sanitize_list_shallow(s) == s

\* the list comprehension (base.py:65)
sanitize_list(s) ==
    IF s = <<>> THEN <<>>
    ELSE <<sanitize_mongo_keys(Head(s))>> \o sanitize_list(Tail(s))

sanitize_mongo_keys(data) ==
    IF IsDict(data) THEN JDict(sanitize_items(data.v, <<>>))
    ELSE IF IsList(data) THEN JList(sanitize_list(data.v))
    ELSE data

\* str.lower(), character by character
UpperChars == <<"A","B","C","D","E","F","G","H","I","J","K","L","M",
                "N","O","P","Q","R","S","T","U","V","W","X","Y","Z">>
LowerChars == <<"a","b","c","d","e","f","g","h","i","j","k","l","m",
                "n","o","p","q","r","s","t","u","v","w","x","y","z">>
lower(s) ==
    [i \in 1..Len(s) |->
        IF \E j \in 1..26 : UpperChars[j] = s[i]
        THEN LowerChars[CHOOSE j \in 1..26 : UpperChars[j] = s[i]]
        ELSE s[i]]

slugify(text) == Replace(Replace(lower(text), " ", "_"), "/", "-")

\* ------------------------------------------------------------------ inputs
Workers == {1}
Names == {"a.txt", "b.txt"}
Contents == {"c1", "c2"}
\* names and contents are interchangeable: the first arrival is fixed
FirstDrop == <<"a.txt", "c1">>

\* hashlib.md5(content.encode('utf-8')).hexdigest(): a function of the content
md5(content) == "md5:" \o content

\* a fingerprint that takes the file name in
file_hash_with_name(filename, content) == md5(filename \o content)

\* orchestrator.py:37: file_hash
file_hash_of(filename, content) == md5(content)

\* the registered classification agents, in declared order
agents == <<"urgency_agent", "sensitivity_agent", "topic_agent",
            "type_agent", "recipient_agent">>
finalizer == "finalizer_agent"

\* a well-formed answer of the generation service for each classification agent
Verdict(name) ==
    CASE name = "urgency_agent" -> JDict(<< <<K_level, JStr(T_High)>> >>)
      [] name = "sensitivity_agent" -> JDict(<< <<K_score, JInt(10)>> >>)
      [] name = "topic_agent" ->
            JDict(<< <<K_main_topic, JStr(T_Legal)>>, <<K_dotted, JStr(T_HR)>> >>)
      [] name = "type_agent" -> JDict(<< <<K_type, JStr(T_HR)>>, <<K_dollar, JBool(TRUE)>> >>)
      [] OTHER -> JDict(<< <<K_recipients, JList(<<JStr(T_Legal), JStr(T_HR)>>)>> >>)

\* parsed answers the generation service may give the finalizer
FR_two == JDict(<< <<K_is_safe, JBool(TRUE)>>,
                   <<K_final_recipients,
                     JList(<<JStr(T_Legal), JStr(T_AllEmployees)>>)>> >>)
FR_same_slug == JDict(<< <<K_is_safe, JBool(TRUE)>>,
                   <<K_final_recipients, JList(<<JStr(T_Legal), JStr(T_legal)>>)>> >>)
FR_none == JDict(<< <<K_is_safe, JBool(TRUE)>>, <<K_final_recipients, JList(<<>>)>> >>)
FR_list == JList(<<>>)
FinalizerResponses == {FR_two, FR_same_slug, FR_none, FR_list}

\* str(e) of a failed generation call
ErrText == JStr(T_llm)

\* BaseAgent._get_llm_response: the parsed answer, or {"error": str(e)}
get_llm_response(ok, answer) ==
    IF ok THEN answer ELSE JDict(<< <<K_error, ErrText>> >>)

\* FinalizerAgent.execute: the parsed answer, or the fallback record
finalizer_execute(ok, answer) ==
    IF ok THEN answer
    ELSE JDict(<< <<K_is_safe, JBool(FALSE)>>,
                  <<K_final_recipients, JList(<<>>)>>,
                  <<K_error, ErrText>> >>)

\* ------------------------------------------------------------------- store
None == [none |-> TRUE]
JNull == [t |-> "null", v |-> FALSE]

Matching(coll, id) == {d \in coll : d["_id"] = id}

\* an upsert that sets the given fields and keeps the others of a match
save_news_item_merging(coll, news_item) ==
    LET m == Matching(coll, news_item["_id"])
    IN  IF m = {} THEN coll \cup {news_item}
        ELSE (coll \ {CHOOSE d \in m : TRUE}) \cup {news_item @@ (CHOOSE d \in m : TRUE)}

\* Database.save_news_item: replace_one({"_id": id}, news_item, upsert=True)
save_news_item(coll, news_item) ==
    LET m == Matching(coll, news_item["_id"])
    IN  IF m = {} THEN coll \cup {news_item}
        ELSE (coll \ {CHOOSE d \in m : TRUE}) \cup {news_item}

\* Database.get_news_item: find_one({"_id": id})
get_news_item(coll, news_id) ==
    LET m == Matching(coll, news_id)
    IN  IF m = {} THEN None ELSE CHOOSE d \in m : TRUE

\* update_one({"_id": id}, {"$set": fields}): fields merged over one match
update_one(coll, id, fields) ==
    LET m == Matching(coll, id)
    IN  IF m = {} THEN coll
        ELSE LET d == CHOOSE x \in m : TRUE
             IN  (coll \ {d}) \cup {fields @@ d}

\* $set of the whole agents_results field
set_agents_results(coll, id, name, value) ==
    LET m == Matching(coll, id)
    IN  IF m = {} THEN coll
        ELSE LET d == CHOOSE x \in m : TRUE
             IN  (coll \ {d}) \cup {("agents_results" :> (name :> value)) @@ d}

\* update_one({"_id": id}, {"$set": {"agents_results.<name>": value}})
set_agent_result(coll, id, name, value) ==
    LET m == Matching(coll, id)
    IN  IF m = {} THEN coll
        ELSE LET d == CHOOSE x \in m : TRUE
                 old == IF "agents_results" \in DOMAIN d
                        THEN d["agents_results"] ELSE <<>>
             IN  (coll \ {d}) \cup
                 {("agents_results" :> ((name :> value) @@ old)) @@ d}

\* ------------------------------------------------------------- file system
TextFile(c) == [t |-> "text", v |-> c]
JsonFile(m) == [t |-> "json", v |-> m]

\* a directory without / with an entry
Without(dir, n) == [x \in DOMAIN dir \ {n} |-> dir[x]]
WithFile(dir, n, f) == (n :> f) @@ dir

\* ------------------------------------------------------------------- state
VARIABLES
    collection,      \* the MongoDB collection news_items: a set of documents
    feed,            \* Config.FEED_DIR: file name -> file
    error_dir,       \* Config.ERROR_DIR: file name -> file
    recipients_dir,  \* Config.RECIPIENTS_DIR: slug -> (file name -> file)
    run,             \* per worker: position and locals of main / process_file
    clock,           \* datetime.now()
    drops,           \* artifacts put into the feed so far
    faults,          \* failures of the store, file system or generation so far
    san,             \* a call of _sanitize_mongo_keys: its argument and result
    mcp,             \* an MCPClient, its connect() context and its latest call
    db               \* the class Database and the handles its callers hold

pipeline == <<collection, feed, error_dir, recipients_dir, run, clock, drops, faults>>
vars == <<pipeline, san, mcp, db>>

\* locals of a worker outside process_file; log, outcome, attempt, dirs0 and
\* errors0 describe the latest processing attempt: the calls it made, in
\* order, how it ended, its number, and the recipient directories and the
\* error directory as it found them
Locals0 ==
    [pc |-> "poll", files |-> {}, file_path |-> "", content |-> "",
     filename |-> "", file_hash |-> "", news_item |-> None, i |-> 1,
     final_result |-> JNull, recipients |-> <<>>, metadata |-> None,
     exc |-> "", log |-> <<>>, outcome |-> "none", attempt |-> 0,
     dirs0 |-> <<>>, errors0 |-> <<>>]

\* MCPClient.__init__ (mcp_client.py:27-36): no session, no tools; ctx is the
\* position of the connect() context; call, name, content, result and ret
\* describe the latest call made at that position: the method, the tool, the
\* document, what session.call_tool gave and what the caller got
NoResult == [raised |-> FALSE, e |-> <<>>, content |-> <<>>]
NoCallYet ==
    [call |-> "none", name |-> "", content |-> <<>>, server_error |-> JNull,
     result |-> NoResult, ret |-> JNull]
Client0 == [session |-> FALSE, available_tools |-> {}, ctx |-> "new"] @@ NoCallYet

\* the class Database before any construction (database.py:7): instance is
\* _instance, 0 for None or else the index in objects of the object it refers
\* to; objects are the attribute sets of the objects made by super().__new__;
\* inits counts the calls of _initialize; handles are the outcomes of the
\* calls Database(), in order
Database0 == [instance |-> 0, objects |-> <<>>, inits |-> 0, handles |-> <<>>]

\* no call of _sanitize_mongo_keys is observed on its own
NoCall == [phase |-> "none", data |-> JNull, result |-> JNull]

Init ==
    /\ collection = {}
    /\ feed = <<>>
    /\ error_dir = <<>>
    /\ recipients_dir = <<>>
    /\ run = [w \in Workers |-> Locals0]
    /\ clock = 0
    /\ drops = 0
    /\ faults = 0
    /\ san = NoCall
    /\ mcp = Client0
    /\ db = Database0

\* whether the next store, file or generation call may fail
MayFail == IF drops + faults < MaxEvents THEN {FALSE, TRUE} ELSE {FALSE}
Count(fail) == faults' = IF fail THEN faults + 1 ELSE faults

\* model.generate_content(prompt) (base.py:24, finalizer.py:55) is called with
\* no timeout: it answers, raises, or never returns
Generation ==
    IF drops + faults < MaxEvents THEN {"answer", "raise", "hang"} ELSE {"answer"}
Cost(llm, store_fail) ==
    (IF llm # "answer" THEN 1 ELSE 0) + (IF store_fail THEN 1 ELSE 0)

\* process_file returns to the loop of main; the locals of the call stay
\* readable until the next call or poll
Return(r, how) == [r EXCEPT !.pc = "loop", !.outcome = how]

\* an exception leaves process_file and main: the process ends
Crash(r) == [Return(r, "crashed") EXCEPT !.pc = "crashed", !.files = {}]

\* the except clause of process_file (orchestrator.py:78)
Handler(r, e) == [r EXCEPT !.pc = "handler", !.exc = e]

\* A new artifact appears in the ingestion directory.  An arrival while a
\* worker is inside process_file is seen by nobody before the next listdir, so
\* arrivals are placed between two polls.
Drop(n, c) ==
    /\ drops + faults < MaxEvents
    /\ drops = 0 => <<n, c>> = FirstDrop
    /\ \A w \in DOMAIN run : run[w].pc = "poll"
    /\ n \notin DOMAIN feed
    /\ feed' = WithFile(feed, n, TextFile(c))
    /\ drops' = drops + 1
    /\ UNCHANGED <<san, mcp, db, collection, error_dir, recipients_dir, run, clock, faults>>

\* main: os.listdir(Config.FEED_DIR), names ending in .txt
ListDir(w) ==
    /\ run[w].pc = "poll"
    /\ run' = [run EXCEPT ![w].pc = "loop", ![w].files = DOMAIN feed \cap Names]
    /\ UNCHANGED <<san, mcp, db, collection, feed, error_dir, recipients_dir, clock, drops, faults>>

\* main: the for loop is exhausted, sleep and poll again
Sleep(w) ==
    /\ run[w].pc = "loop"
    /\ run[w].files = {}
    /\ run' = [run EXCEPT ![w] = [Locals0 EXCEPT !.attempt = run[w].attempt]]
    /\ UNCHANGED <<san, mcp, db, collection, feed, error_dir, recipients_dir, clock, drops, faults>>

\* the except clause logs and falls through to the upsert, with empty content
ReadFailedGoesOn(r) ==
    [r EXCEPT !.pc = "save", !.outcome = "unreadable",
              !.file_hash = file_hash_of("", ""),
              !.news_item = [_id |-> file_hash_of("", ""), filename |-> "",
                             content |-> "", status |-> "processing",
                             agents_results |-> <<>>, created_at |-> 0]]

\* process_file, lines 32-34: except Exception: logging.error(...); return
ReadFailed(r) == Return(r, "unreadable")

\* process_file, lines 29-47: read the file, build news_item
ReadFile(w) ==
    /\ run[w].pc = "loop"
    /\ \E f \in run[w].files, fail \in MayFail :
        LET r == [Locals0 EXCEPT !.files = run[w].files \ {f},
                                 !.attempt = run[w].attempt]
        IN  /\ Count(fail)
            /\ IF fail \/ f \notin DOMAIN feed
               THEN /\ run' = [run EXCEPT ![w] = ReadFailed(r)]
                    /\ clock' = clock
               ELSE /\ clock' = clock + 1
                    /\ run' = [run EXCEPT ![w] =
                         [r EXCEPT !.pc = "save", !.file_path = f,
                            !.content = feed[f].v, !.filename = f,
                            !.file_hash = file_hash_of(f, feed[f].v),
                            !.attempt = clock + 1, !.outcome = "running",
                            !.dirs0 = recipients_dir, !.errors0 = error_dir,
                            !.news_item =
                                [_id |-> file_hash_of(f, feed[f].v),
                                 filename |-> f,
                                 content |-> feed[f].v,
                                 status |-> "processing",
                                 agents_results |-> <<>>,
                                 created_at |-> clock + 1]]]
    /\ UNCHANGED <<san, mcp, db, collection, feed, error_dir, recipients_dir, drops>>

\* process_file, line 48: self.db.save_news_item(news_item)
SaveNewsItem(w) ==
    /\ run[w].pc = "save"
    /\ \E fail \in MayFail :
        /\ Count(fail)
        /\ IF fail
           THEN /\ collection' = collection
                /\ run' = [run EXCEPT ![w] = Crash(run[w])]
           ELSE /\ collection' = save_news_item(collection, run[w].news_item)
                /\ run' = [run EXCEPT ![w].pc = "agents", ![w].i = 1,
                                      ![w].log = Append(@, <<"save">>)]
    /\ UNCHANGED <<san, mcp, db, feed, error_dir, recipients_dir, clock, drops>>

\* the for loop over self.agents moves on, or ends before the finalizer
NextAgent(r) ==
    IF r.i < Len(agents) THEN [r EXCEPT !.pc = "agents", !.i = @ + 1]
    ELSE [r EXCEPT !.pc = "finalizer"]

\* the exception of a stage ends the loop
AgentFailedBreaks(r) == [r EXCEPT !.pc = "finalizer"]

\* orchestrator.py:57-58: except Exception: logging.error(...), the loop goes on
AgentFailed(r) == NextAgent(r)

\* a process that returns its result without writing it to the store
process_without_commit(coll, news_item, agent_name, result) == coll

\* BaseAgent.process (called at orchestrator.py:54 and 62): execute,
\* _sanitize_mongo_keys, update_one on agents_results.<agent_name>; the value
\* it returns is the sanitized result it has written
process(coll, news_item, agent_name, result) ==
    set_agent_result(coll, news_item["_id"], agent_name, sanitize_mongo_keys(result))

AgentProcess(w) ==
    /\ run[w].pc = "agents"
    /\ \E llm \in Generation, store_fail \in MayFail :
        LET r == run[w]
            name == agents[r.i]
            result == get_llm_response(llm = "answer", Verdict(name))
            started == [r EXCEPT !.log = Append(@, <<"start", name>>)]
        IN  /\ faults + Cost(llm, store_fail) <= MaxEvents - drops
            /\ llm = "hang" => ~store_fail
            /\ faults' = faults + Cost(llm, store_fail)
            /\ IF llm = "hang"
               THEN /\ collection' = collection
                    /\ run' = [run EXCEPT ![w] = [started EXCEPT !.pc = "blocked"]]
               ELSE IF r.news_item = None \/ store_fail
               THEN /\ collection' = collection
                    /\ run' = [run EXCEPT ![w] =
                          AgentFailed([started EXCEPT !.log = Append(@, <<"raise", name>>)])]
               ELSE /\ collection' = process(collection, r.news_item, name, result)
                    /\ run' = [run EXCEPT ![w] =
                          [started EXCEPT !.pc = "refresh",
                             !.log = Append(@, <<"commit", name>>)]]
    /\ UNCHANGED <<san, mcp, db, feed, error_dir, recipients_dir, clock, drops>>

\* orchestrator.py:56: news_item = self.db.get_news_item(file_hash)
Refresh(w) ==
    /\ run[w].pc = "refresh"
    /\ \E fail \in MayFail :
        /\ Count(fail)
        /\ run' = [run EXCEPT ![w] =
              IF fail THEN AgentFailed(run[w])
              ELSE NextAgent([run[w] EXCEPT !.news_item =
                                get_news_item(collection, run[w].file_hash)])]
    /\ UNCHANGED <<san, mcp, db, collection, feed, error_dir, recipients_dir, clock, drops>>

\* a context that needs a verdict without error under every namespace
finalizer_context_strict(news_item) ==
    [ok |-> \A k \in 1..Len(agents) :
                /\ agents[k] \in DOMAIN news_item["agents_results"]
                /\ ~HasKey(news_item["agents_results"][agents[k]], K_error),
     content |-> news_item["content"],
     agents_results |-> news_item["agents_results"]]

\* FinalizerAgent.execute, lines 40-46, outside its try block: the context of
\* the prompt is the content and news_item.get("agents_results", {}), whatever
\* namespaces it holds; ok tells that no statement raised
finalizer_context(news_item) ==
    [ok |-> TRUE,
     content |-> news_item["content"],
     agents_results |-> IF "agents_results" \in DOMAIN news_item
                        THEN news_item["agents_results"] ELSE <<>>]

\* orchestrator.py:62: final_result = self.finalizer.process(news_item)
FinalizerProcess(w) ==
    /\ run[w].pc = "finalizer"
    /\ \E llm \in Generation, store_fail \in MayFail, answer \in FinalizerResponses :
        LET r == run[w]
            result == finalizer_execute(llm = "answer", answer)
            started == [r EXCEPT !.log = Append(@, <<"start", finalizer>>)]
        IN  /\ faults + Cost(llm, store_fail) <= MaxEvents - drops
            /\ llm = "hang" => ~store_fail
            /\ faults' = faults + Cost(llm, store_fail)
            /\ IF llm = "hang"
               THEN /\ collection' = collection
                    /\ run' = [run EXCEPT ![w] = [started EXCEPT !.pc = "blocked"]]
               ELSE IF \/ r.news_item = None
                       \/ ~finalizer_context(r.news_item).ok
                       \/ store_fail
               THEN /\ collection' = collection
                    /\ run' = [run EXCEPT ![w] = Handler(started, "finalizer.process")]
               ELSE /\ collection' = process(collection, r.news_item, finalizer, result)
                    /\ run' = [run EXCEPT ![w] =
                          [started EXCEPT !.pc = "set_final",
                             !.final_result = sanitize_mongo_keys(result),
                             !.log = Append(@, <<"commit", finalizer>>)]]
    /\ UNCHANGED <<san, mcp, db, feed, error_dir, recipients_dir, clock, drops>>

\* orchestrator.py:65-73: $set final_decision and status "completed"
SetFinal(w) ==
    /\ run[w].pc = "set_final"
    /\ \E fail \in MayFail :
        /\ Count(fail)
        /\ IF fail
           THEN /\ collection' = collection
                /\ run' = [run EXCEPT ![w] = Handler(run[w], "update_one")]
           ELSE /\ collection' = update_one(collection, run[w].file_hash,
                        [final_decision |-> run[w].final_result,
                         status |-> "completed"])
                /\ run' = [run EXCEPT ![w].pc = "reload",
                                      ![w].log = Append(@, <<"set_final">>)]
    /\ UNCHANGED <<san, mcp, db, feed, error_dir, recipients_dir, clock, drops>>

\* orchestrator.py:74: news_item = self.db.get_news_item(file_hash)
Reload(w) ==
    /\ run[w].pc = "reload"
    /\ \E fail \in MayFail :
        /\ Count(fail)
        /\ run' = [run EXCEPT ![w] =
              IF fail THEN Handler(run[w], "get_news_item")
              ELSE [run[w] EXCEPT !.pc = "distribute",
                      !.news_item = get_news_item(collection, run[w].file_hash)]]
    /\ UNCHANGED <<san, mcp, db, collection, feed, error_dir, recipients_dir, clock, drops>>

\* _distribute, lines 87-88: the recipients of the final decision
final_of(news_item) ==
    IF "final_decision" \in DOMAIN news_item THEN news_item["final_decision"]
    ELSE JDict(<<>>)
recipients_of(final) == DictGet(final, K_final_recipients, JList(<<>>))

\* _distribute, lines 96-100
metadata_of(news_item, final) ==
    [original_filename |-> news_item["filename"],
     id |-> news_item["_id"],
     metadata |-> final]

\* a move that loses the file
move_to_nowhere(errors, source, file_path) == errors

\* _move_to_error: shutil.move(file_path, ERROR_DIR/basename)
move_to_error(errors, source, file_path) == WithFile(errors, file_path, source[file_path])

\* _distribute, lines 87-100 (called at orchestrator.py:76)
Distribute(w) ==
    /\ run[w].pc = "distribute"
    /\ LET r == [run[w] EXCEPT !.log = Append(@, <<"distribute">>)]
           final == final_of(r.news_item)
       IN  run' = [run EXCEPT ![w] =
              IF r.news_item = None \/ ~IsDict(final)
              THEN Handler(r, "AttributeError")
              ELSE IF recipients_of(final).v = <<>>
              THEN [r EXCEPT !.pc = "no_recipients"]
              ELSE [r EXCEPT !.pc = "copy",
                      !.recipients = recipients_of(final).v,
                      !.metadata = metadata_of(r.news_item, final)]]
    /\ UNCHANGED <<san, mcp, db, collection, feed, error_dir, recipients_dir, clock, drops, faults>>

\* _distribute, lines 91-93: no recipients, the file goes to the error directory
NoRecipients(w) ==
    /\ run[w].pc = "no_recipients"
    /\ \E fail \in MayFail :
        LET r == run[w] IN
        /\ Count(fail)
        /\ IF fail \/ r.file_path \notin DOMAIN feed
           THEN /\ UNCHANGED <<feed, error_dir>>
                /\ run' = [run EXCEPT ![w] = Handler(r, "move")]
           ELSE /\ error_dir' = move_to_error(error_dir, feed, r.file_path)
                /\ feed' = Without(feed, r.file_path)
                /\ run' = [run EXCEPT ![w] =
                      Return([r EXCEPT !.log = Append(@, <<"to_error">>)],
                             "no_recipients")]
    /\ UNCHANGED <<san, mcp, db, collection, recipients_dir, clock, drops>>

\* the directory of a recipient, created by os.makedirs(exist_ok=True)
DirOf(dirs, slug) == IF slug \in DOMAIN dirs THEN dirs[slug] ELSE <<>>

\* a copy into a directory named by the recipient as written
copy_article_unslugged(dirs, source, file_path, recipient, filename) ==
    (recipient :> WithFile(DirOf(dirs, recipient), filename, source[file_path])) @@ dirs

\* _distribute, lines 104-109: makedirs and shutil.copy2 for one recipient
copy_article(dirs, source, file_path, recipient, filename) ==
    (slugify(recipient) :>
        WithFile(DirOf(dirs, slugify(recipient)), filename, source[file_path])) @@ dirs

CopyArticle(w) ==
    /\ run[w].pc = "copy"
    /\ \E fail \in MayFail :
        LET r == run[w]
            recipient == Head(r.recipients).v
        IN
        /\ Count(fail)
        /\ IF fail \/ r.file_path \notin DOMAIN feed
           THEN /\ recipients_dir' = recipients_dir
                /\ run' = [run EXCEPT ![w] = Handler(r, "copy2")]
           ELSE /\ recipients_dir' = copy_article(recipients_dir, feed, r.file_path,
                                                  recipient, r.news_item["filename"])
                /\ run' = [run EXCEPT ![w].pc = "meta",
                              ![w].log = Append(@, <<"copy", slugify(recipient)>>)]
    /\ UNCHANGED <<san, mcp, db, collection, feed, error_dir, clock, drops>>

\* _distribute, lines 112-114: json.dump(metadata) into <filename>.json
save_metadata(dirs, recipient, filename, metadata) ==
    (slugify(recipient) :>
        WithFile(DirOf(dirs, slugify(recipient)), filename \o ".json",
                 JsonFile(metadata))) @@ dirs

\* the source is removed as soon as one recipient is served
RemoveAfterFirst(recipients) == "remove"

\* _distribute, lines 103 and 117: the for loop takes the next recipient;
\* os.remove comes after the loop
NextRecipient(recipients) == IF Len(recipients) > 1 THEN "copy" ELSE "remove"

SaveMetadata(w) ==
    /\ run[w].pc = "meta"
    /\ \E fail \in MayFail :
        LET r == run[w]
            recipient == Head(r.recipients).v
        IN
        /\ Count(fail)
        /\ IF fail
           THEN /\ recipients_dir' = recipients_dir
                /\ run' = [run EXCEPT ![w] = Handler(r, "open")]
           ELSE /\ recipients_dir' = save_metadata(recipients_dir, recipient,
                                          r.news_item["filename"], r.metadata)
                /\ run' = [run EXCEPT ![w] =
                      [r EXCEPT !.pc = NextRecipient(r.recipients),
                                !.recipients = Tail(@),
                                !.log = Append(@, <<"meta", slugify(recipient)>>)]]
    /\ UNCHANGED <<san, mcp, db, collection, feed, error_dir, clock, drops>>

\* _distribute, line 117: os.remove(original_file_path)
Remove(w) ==
    /\ run[w].pc = "remove"
    /\ \E fail \in MayFail :
        LET r == run[w] IN
        /\ Count(fail)
        /\ IF fail \/ r.file_path \notin DOMAIN feed
           THEN /\ feed' = feed
                /\ run' = [run EXCEPT ![w] = Handler(r, "remove")]
           ELSE /\ feed' = Without(feed, r.file_path)
                /\ run' = [run EXCEPT ![w] =
                      Return([r EXCEPT !.log = Append(@, <<"remove">>)], "distributed")]
    /\ UNCHANGED <<san, mcp, db, collection, error_dir, recipients_dir, clock, drops>>

\* orchestrator.py:80-83: the except clause sets status "error" and the message
HandlerUpdate(w) ==
    /\ run[w].pc = "handler"
    /\ \E fail \in MayFail :
        LET r == run[w] IN
        /\ Count(fail)
        /\ IF fail
           THEN /\ collection' = collection
                /\ run' = [run EXCEPT ![w] = Crash(r)]
           ELSE /\ collection' = update_one(collection, r.file_hash,
                                     [status |-> "error", error |-> r.exc])
                /\ run' = [run EXCEPT ![w].pc = "handler_move",
                              ![w].log = Append(@, <<"set_error">>)]
    /\ UNCHANGED <<san, mcp, db, feed, error_dir, recipients_dir, clock, drops>>

\* orchestrator.py:84: self._move_to_error(file_path)
HandlerMove(w) ==
    /\ run[w].pc = "handler_move"
    /\ \E fail \in MayFail :
        LET r == run[w] IN
        /\ Count(fail)
        /\ IF fail \/ r.file_path \notin DOMAIN feed
           THEN /\ UNCHANGED <<feed, error_dir>>
                /\ run' = [run EXCEPT ![w] = Crash(r)]
           ELSE /\ error_dir' = move_to_error(error_dir, feed, r.file_path)
                /\ feed' = Without(feed, r.file_path)
                /\ run' = [run EXCEPT ![w] =
                      Return([r EXCEPT !.log = Append(@, <<"to_error">>)],
                             "quarantined")]
    /\ UNCHANGED <<san, mcp, db, collection, recipients_dir, clock, drops>>

\* one step of worker w: the polling loop of main or a statement of process_file
WorkerStep(w) ==
    \/ ListDir(w)
    \/ Sleep(w)
    \/ ReadFile(w)
    \/ SaveNewsItem(w)
    \/ AgentProcess(w)
    \/ Refresh(w)
    \/ FinalizerProcess(w)
    \/ SetFinal(w)
    \/ Reload(w)
    \/ Distribute(w)
    \/ NoRecipients(w)
    \/ CopyArticle(w)
    \/ SaveMetadata(w)
    \/ Remove(w)
    \/ HandlerUpdate(w)
    \/ HandlerMove(w)

Next ==
    \/ \E n \in Names, c \in Contents : Drop(n, c)
    \/ \E w \in Workers : WorkerStep(w)

Spec == Init /\ [][Next]_vars

\* ------------------------------------------- _sanitize_mongo_keys on its own
\* A JSON value is built node by node, then _sanitize_mongo_keys is applied
\* to it.  Keys are the strings json.loads gives.
K_plain == <<"n","o","t","e","_","1">>
SanKeys == {K_dotted, K_dollar, K_plain, K_score}
Leaves == {JStr(K_dotted), JInt(1), JList(<<>>), JDict(<<>>)}

RECURSIVE Size(_), SizeOfAll(_)
Size(x) ==
    IF IsDict(x) THEN 1 + SizeOfAll([i \in 1..Len(x.v) |-> x.v[i][2]])
    ELSE IF IsList(x) THEN 1 + SizeOfAll(x.v)
    ELSE 1
SizeOfAll(s) == IF s = <<>> THEN 0 ELSE Size(Head(s)) + SizeOfAll(Tail(s))

SanInit ==
    /\ collection = {}
    /\ feed = <<>>
    /\ error_dir = <<>>
    /\ recipients_dir = <<>>
    /\ run = [w \in Workers |-> Locals0]
    /\ clock = 0
    /\ drops = 0
    /\ faults = 0
    /\ \E x \in Leaves : san = [phase |-> "build", data |-> x, result |-> JNull]
    /\ mcp = Client0
    /\ db = Database0

Building == san.phase = "build" /\ Size(san.data) < MaxNodes

\* the value becomes the only element of a list
WrapInList ==
    /\ Building
    /\ san' = [san EXCEPT !.data = JList(<<san.data>>)]
    /\ UNCHANGED <<pipeline, mcp, db>>

\* the value becomes the only entry of a mapping
WrapInDict(k) ==
    /\ Building
    /\ san' = [san EXCEPT !.data = JDict(<< <<k, san.data>> >>)]
    /\ UNCHANGED <<pipeline, mcp, db>>

\* a list gets one more element
AppendElement(x) ==
    /\ Building
    /\ IsList(san.data)
    /\ san' = [san EXCEPT !.data = JList(Append(san.data.v, x))]
    /\ UNCHANGED <<pipeline, mcp, db>>

\* a mapping gets one more key
PutEntry(k, x) ==
    /\ Building
    /\ IsDict(san.data)
    /\ ~HasKey(san.data, k)
    /\ san' = [san EXCEPT !.data = JDict(Append(san.data.v, <<k, x>>))]
    /\ UNCHANGED <<pipeline, mcp, db>>

\* cleaned = self._sanitize_mongo_keys(data)
Sanitize ==
    /\ san.phase = "build"
    /\ san' = [san EXCEPT !.phase = "done", !.result = sanitize_mongo_keys(san.data)]
    /\ UNCHANGED <<pipeline, mcp, db>>

SanNext ==
    \/ WrapInList
    \/ \E k \in SanKeys : WrapInDict(k)
    \/ \E x \in Leaves : AppendElement(x)
    \/ \E k \in SanKeys, x \in Leaves : PutEntry(k, x)
    \/ Sanitize

SanSpec == SanInit /\ [][SanNext]_vars

\* ------------------------------------------------- two processes of main.py
\* Two processes run main.py on the same directories and the same collection.
\* One file is in the feed; both processes may list it and call process_file
\* on it, so both work on the same Document id at the same time.  No further
\* file arrives and no call fails or hangs: what the arrival leaves of the
\* budget of events is spent from the start.
Workers2 == {1, 2}

ConcInit ==
    /\ collection = {}
    /\ feed = FirstDrop[1] :> TextFile(FirstDrop[2])
    /\ error_dir = <<>>
    /\ recipients_dir = <<>>
    /\ run = [w \in Workers2 |-> Locals0]
    /\ clock = 0
    /\ drops = 1
    /\ faults = MaxEvents - 1
    /\ san = NoCall
    /\ mcp = Client0
    /\ db = Database0

ConcNext == \E w \in Workers2 : WorkerStep(w)

ConcSpec == ConcInit /\ [][ConcNext]_vars

\* ------------------------------------------------ MCP server and client
\* keys and texts of the tool results
K_reasoning == <<"r","e","a","s","o","n","i","n","g">>
K_improved_content ==
    <<"i","m","p","r","o","v","e","d","_","c","o","n","t","e","n","t">>
K_changes_summary ==
    <<"c","h","a","n","g","e","s","_","s","u","m","m","a","r","y">>
T_ErrorOccurred == <<"E","r","r","o","r"," ","o","c","c","u","r","r","e","d",":"," ">>
T_Error == <<"E","r","r","o","r",":"," ">>
T_NoResponse == <<"N","o"," ","r","e","s","p","o","n","s","e">>
T_EmptyResponse == <<"E","m","p","t","y"," ","r","e","s","p","o","n","s","e">>
\* str(e) of a failed Cohere call, of a JSONDecodeError, of a call on a closed
\* session, and of the ValueError of call_tool
T_cohere == <<"4","2","9">>
T_decode == <<"E","x","p","e","c","t","i","n","g">>
T_closed == <<"c","l","o","s","e","d">>
T_UnknownTool == <<"U","n","k","n","o","w","n"," ","t","o","o","l">>

\* A text is known by how it was produced: json.dumps-like output of a JSON
\* generator, str() of a Python value, or any other text.
JsonText(v) == [fmt |-> "json", v |-> v]
ReprText(v) == [fmt |-> "repr", v |-> v]
RawText(s) == [fmt |-> "raw", v |-> s]

\* repr of a str is in double quotes, as JSON wants, only when the string
\* holds a single quote and no double quote
StrReprIsJson(s) ==
    /\ \E j \in 1..Len(s) : s[j] = "'"
    /\ \A j \in 1..Len(s) : s[j] # "\""

\* str() of a Python value is a JSON text: numbers, and lists and dicts of
\* such; True, False and None are not JSON
RECURSIVE ReprIsJson(_)
ReprIsJson(x) ==
    CASE x.t = "str" -> StrReprIsJson(x.v)
      [] x.t = "int" -> TRUE
      [] x.t = "list" -> \A j \in 1..Len(x.v) : ReprIsJson(x.v[j])
      [] x.t = "dict" ->
            \A j \in 1..Len(x.v) : StrReprIsJson(x.v[j][1]) /\ ReprIsJson(x.v[j][2])
      [] OTHER -> FALSE

\* json.loads(text): the value, or JSONDecodeError
json_loads(text) ==
    IF text.fmt = "json" \/ (text.fmt = "repr" /\ ReprIsJson(text.v))
    THEN [ok |-> TRUE, v |-> text.v]
    ELSE [ok |-> FALSE, v |-> T_decode]

\* mcp_server.py:33-65: the tools the server declares
ServerTools == <<"get_recipient_suggestion", "improve_document">>

\* cohere_client.chat(..., response_format json_object): a JSON object as
\* text, a text cut short, or an exception
CohereOk(text) == [ok |-> TRUE, text |-> text, e |-> <<>>]
CohereFails == [ok |-> FALSE, text |-> RawText(<<>>), e |-> T_cohere]

\* the except clause of the server's get_recipient_suggestion, lines 129-135
recipient_error_response(e) ==
    JDict(<< <<K_recipients, JList(<<>>)>>,
             <<K_reasoning, JStr(T_ErrorOccurred \o e)>>,
             <<K_error, JStr(e)>> >>)

\* the except clause of the server's improve_document, lines 186-192
improve_error_response(content, e) ==
    JDict(<< <<K_improved_content, JStr(content)>>,
             <<K_changes_summary, JStr(T_ErrorOccurred \o e)>>,
             <<K_error, JStr(e)>> >>)

\* text=str(error_response) (mcp_server.py:138, 195)
ErrorText(v) == ReprText(v)

\* mcp_server.py:81-139: the list of TextContent the tool returns
server_get_recipient_suggestion(content, cohere) ==
    IF cohere.ok THEN <<cohere.text>>
    ELSE <<ErrorText(recipient_error_response(cohere.e))>>

\* mcp_server.py:142-196
server_improve_document(content, cohere) ==
    IF cohere.ok THEN <<cohere.text>>
    ELSE <<ErrorText(improve_error_response(content, cohere.e))>>

\* every name is dispatched to the first tool
call_tool_any(name, content, cohere) ==
    [raised |-> FALSE, e |-> <<>>,
     content |-> server_get_recipient_suggestion(content, cohere)]

\* mcp_server.py:68-78: call_tool dispatches on the name or raises ValueError
call_tool(name, content, cohere) ==
    IF name = "get_recipient_suggestion"
    THEN [raised |-> FALSE, e |-> <<>>,
          content |-> server_get_recipient_suggestion(content, cohere)]
    ELSE IF name = "improve_document"
    THEN [raised |-> FALSE, e |-> <<>>,
          content |-> server_improve_document(content, cohere)]
    ELSE [raised |-> TRUE, e |-> T_UnknownTool, content |-> <<>>]

\* what a caller gets from a method: a value, or an exception
Returned(v) == [kind |-> "return", v |-> v]
Raises(e) == [kind |-> "raise", v |-> e]

\* session.call_tool(name, arguments) as the client sees it: an exception of
\* the transport (always, once the session is closed), a result without
\* content, or the result of the server; an exception of the server's handler
\* comes back as a result whose text is the message
session_call_tool(live, transport, name, content, cohere) ==
    IF ~live \/ transport = "raise"
    THEN [raised |-> TRUE, e |-> T_closed, content |-> <<>>]
    ELSE IF transport = "empty"
    THEN [raised |-> FALSE, e |-> <<>>, content |-> <<>>]
    ELSE LET r == call_tool(name, content, cohere)
         IN  IF r.raised
             THEN [raised |-> FALSE, e |-> <<>>, content |-> <<RawText(r.e)>>]
             ELSE r

\* mcp_client.py:96-100 and 104-108
client_recipient_error(reasoning, e) ==
    JDict(<< <<K_recipients, JList(<<>>)>>,
             <<K_reasoning, JStr(reasoning)>>,
             <<K_error, JStr(e)>> >>)

\* mcp_client.py:134-138 and 142-146
client_improve_error(content, summary, e) ==
    JDict(<< <<K_improved_content, JStr(content)>>,
             <<K_changes_summary, JStr(summary)>>,
             <<K_error, JStr(e)>> >>)

\* json.loads outside the try block: a text that does not parse raises
client_get_recipient_suggestion_unguarded(session, content, result) ==
    IF ~session THEN Raises("RuntimeError")
    ELSE IF result.raised \/ result.content = <<>>
    THEN Returned(client_recipient_error(T_NoResponse, T_EmptyResponse))
    ELSE IF json_loads(result.content[1]).ok
    THEN Returned(json_loads(result.content[1]).v)
    ELSE Raises("JSONDecodeError")

\* MCPClient.get_recipient_suggestion (mcp_client.py:72-108), given the
\* outcome of session.call_tool
client_get_recipient_suggestion(session, content, result) ==
    IF ~session THEN Raises("RuntimeError")
    ELSE IF result.raised
    THEN Returned(client_recipient_error(T_Error \o result.e, result.e))
    ELSE IF result.content = <<>>
    THEN Returned(client_recipient_error(T_NoResponse, T_EmptyResponse))
    ELSE IF json_loads(result.content[1]).ok
    THEN Returned(json_loads(result.content[1]).v)
    ELSE Returned(client_recipient_error(T_Error \o json_loads(result.content[1]).v,
                                         json_loads(result.content[1]).v))

\* MCPClient.improve_document (mcp_client.py:110-146)
client_improve_document(session, content, result) ==
    IF ~session THEN Raises("RuntimeError")
    ELSE IF result.raised
    THEN Returned(client_improve_error(content, T_Error \o result.e, result.e))
    ELSE IF result.content = <<>>
    THEN Returned(client_improve_error(content, T_NoResponse, T_EmptyResponse))
    ELSE IF json_loads(result.content[1]).ok
    THEN Returned(json_loads(result.content[1]).v)
    ELSE Returned(client_improve_error(content,
                        T_Error \o json_loads(result.content[1]).v,
                        json_loads(result.content[1]).v))

\* MCPClient.list_tools (mcp_client.py:148-164): the names cached by connect
client_list_tools(session, available_tools) ==
    IF ~session THEN Raises("RuntimeError") ELSE Returned(available_tools)

\* document contents given to the tools: empty, short, special characters
McpContents == {<<>>, <<"H","i",".">>, <<"@","#","$","%","'">>}

\* tool names a caller may ask the server for
ToolNames == {"get_recipient_suggestion", "improve_document", "delete_document"}

\* answers of Cohere for one tool call
GoodRecipients ==
    JDict(<< <<K_recipients, JList(<<JStr(T_Legal)>>)>>,
             <<K_reasoning, JStr(T_Legal)>> >>)
GoodImprovement ==
    JDict(<< <<K_improved_content, JStr(T_High)>>,
             <<K_changes_summary, JStr(T_Legal)>> >>)
CohereOutcomes ==
    {CohereOk(JsonText(GoodRecipients)), CohereOk(JsonText(GoodImprovement)),
     CohereOk(JsonText(JDict(<<>>))), CohereOk(RawText(<<"{">>)), CohereFails}
Transports == {"ok", "raise", "empty"}

\* the session is open and its transport is alive: inside the connect() context
Live == mcp.ctx = "in"

McpInit ==
    /\ collection = {}
    /\ feed = <<>>
    /\ error_dir = <<>>
    /\ recipients_dir = <<>>
    /\ run = [w \in Workers |-> Locals0]
    /\ clock = 0
    /\ drops = 0
    /\ faults = 0
    /\ san = NoCall
    /\ mcp = Client0
    /\ db = Database0

\* entering "async with client.connect()" (mcp_client.py:46-67): stdio_client
\* or ClientSession may raise before line 54, initialize or list_tools after it
Connect(outcome) ==
    /\ mcp.ctx # "in"
    /\ mcp' = CASE outcome = "spawn" ->
                      [ctx |-> "failed"] @@ NoCallYet @@ mcp
                [] outcome = "initialize" ->
                      [ctx |-> "failed", session |-> TRUE] @@ NoCallYet @@ mcp
                [] OTHER ->
                      [ctx |-> "in", session |-> TRUE,
                       available_tools |->
                            {ServerTools[j] : j \in 1..Len(ServerTools)}]
                        @@ NoCallYet @@ mcp
    /\ UNCHANGED <<pipeline, san, db>>

\* the body of the with statement ends: the generator resumes after the yield
\* (lines 69-70), or the exception of the body is thrown into it at the yield
ExitBody(body_raised) ==
    /\ mcp.ctx = "in"
    /\ mcp' = IF body_raised THEN [ctx |-> "raised"] @@ NoCallYet @@ mcp
              ELSE [ctx |-> "exited", session |-> FALSE] @@ NoCallYet @@ mcp
    /\ UNCHANGED <<pipeline, san, db>>

\* the description of its own failure that the server puts in its answer
ServerError(transport, cohere) ==
    IF mcp.session /\ Live /\ transport = "ok" /\ ~cohere.ok
    THEN JStr(cohere.e) ELSE JNull

GetRecipientSuggestion(content, transport, cohere) ==
    /\ mcp' = [mcp EXCEPT
            !.call = "get_recipient_suggestion",
            !.name = "get_recipient_suggestion",
            !.content = content,
            !.server_error = ServerError(transport, cohere),
            !.result = session_call_tool(Live, transport, "get_recipient_suggestion",
                                         content, cohere),
            !.ret = client_get_recipient_suggestion(mcp.session, content,
                       session_call_tool(Live, transport, "get_recipient_suggestion",
                                         content, cohere))]
    /\ UNCHANGED <<pipeline, san, db>>

ImproveDocument(content, transport, cohere) ==
    /\ mcp' = [mcp EXCEPT
            !.call = "improve_document",
            !.name = "improve_document",
            !.content = content,
            !.server_error = ServerError(transport, cohere),
            !.result = session_call_tool(Live, transport, "improve_document",
                                         content, cohere),
            !.ret = client_improve_document(mcp.session, content,
                       session_call_tool(Live, transport, "improve_document",
                                         content, cohere))]
    /\ UNCHANGED <<pipeline, san, db>>

ListTools ==
    /\ mcp' = [mcp EXCEPT
            !.call = "list_tools", !.name = "", !.content = <<>>,
            !.server_error = JNull, !.result = NoResult,
            !.ret = client_list_tools(mcp.session, mcp.available_tools)]
    /\ UNCHANGED <<pipeline, san, db>>

\* a request for the tool `name` reaches the handler of the server
ServerCallTool(name, content, cohere) ==
    /\ Live
    /\ LET r == call_tool(name, content, cohere)
       IN  mcp' = [mcp EXCEPT
               !.call = "call_tool", !.name = name, !.content = content,
               !.server_error = JNull, !.result = NoResult,
               !.ret = IF r.raised THEN Raises(r.e) ELSE Returned(r.content)]
    /\ UNCHANGED <<pipeline, san, db>>

McpNext ==
    \/ \E outcome \in {"ok", "spawn", "initialize"} : Connect(outcome)
    \/ \E body_raised \in BOOLEAN : ExitBody(body_raised)
    \/ \E content \in McpContents, transport \in Transports, cohere \in CohereOutcomes :
          GetRecipientSuggestion(content, transport, cohere)
    \/ \E content \in McpContents, transport \in Transports, cohere \in CohereOutcomes :
          ImproveDocument(content, transport, cohere)
    \/ ListTools
    \/ \E name \in ToolNames, content \in McpContents, cohere \in CohereOutcomes :
          ServerCallTool(name, content, cohere)

McpSpec == McpInit /\ [][McpNext]_vars

\* ---------------------------------------------------- the class Database
\* Callers (Orchestrator.__init__, BaseAgent.__init__) call Database() and
\* later get_collection() on what they got.
MaxConstructions == 5

\* the statements of _initialize that can raise (database.py:17-19)
InitializeOutcomes == {"ok", "MongoClient", "client[DB_NAME]", "db[COLLECTION_NAME]"}

\* Database._initialize: the attributes assigned before the statement that
\* raises; the except clause logs and re-raises
initialize(outcome) ==
    CASE outcome = "MongoClient" -> {}
      [] outcome = "client[DB_NAME]" -> {"client"}
      [] outcome = "db[COLLECTION_NAME]" -> {"client", "db"}
      [] OTHER -> {"client", "db", "collection"}

\* what a call Database() gave its caller: an exception, or a reference; got
\* is what get_collection() gave through it
RaisedHandle == [raised |-> TRUE, ref |-> 0, got |-> "none"]
Handle(ref) == [raised |-> FALSE, ref |-> ref, got |-> "none"]

\* Database.__new__ (database.py:9-13): _instance is assigned before
\* _initialize is called on it, and only when it is None
Database_new(cls, outcome) ==
    IF cls.instance = 0
    THEN LET ref == Len(cls.objects) + 1
         IN  [cls EXCEPT !.instance = ref,
                         !.objects = Append(@, initialize(outcome)),
                         !.inits = @ + 1,
                         !.handles = Append(@, IF outcome = "ok" THEN Handle(ref)
                                               ELSE RaisedHandle)]
    ELSE [cls EXCEPT !.handles = Append(@, Handle(cls.instance))]

\* Database.get_collection: return self.collection
get_collection(attrs) ==
    IF "collection" \in attrs THEN "collection" ELSE "AttributeError"

DbInit ==
    /\ collection = {}
    /\ feed = <<>>
    /\ error_dir = <<>>
    /\ recipients_dir = <<>>
    /\ run = [w \in Workers |-> Locals0]
    /\ clock = 0
    /\ drops = 0
    /\ faults = 0
    /\ san = NoCall
    /\ mcp = Client0
    /\ db = Database0

\* self.db = Database() (orchestrator.py:16, base.py:12)
Construct(outcome) ==
    /\ Len(db.handles) < MaxConstructions
    /\ db' = Database_new(db, outcome)
    /\ UNCHANGED <<pipeline, san, mcp>>

\* self.db.get_collection() through the h-th handle
GetCollection(h) ==
    /\ h <= Len(db.handles)
    /\ ~db.handles[h].raised
    /\ db.handles[h].got = "none"
    /\ db' = [db EXCEPT !.handles[h].got = get_collection(db.objects[db.handles[h].ref])]
    /\ UNCHANGED <<pipeline, san, mcp>>

DbNext ==
    \/ \E outcome \in InitializeOutcomes : Construct(outcome)
    \/ \E h \in 1..MaxConstructions : GetCollection(h)

DbSpec == DbInit /\ [][DbNext]_vars

\* ------------------------------------------------------ reading the state
\* the stored document of the content worker w is processing (or None)
DocOf(w) == get_news_item(collection, run[w].file_hash)
DocOfNext(w) == get_news_item(collection', run[w].file_hash)

Terminal(d) == d # None /\ d["status"] \in {"completed", "error"}

Events(r) == {r.log[j] : j \in 1..Len(r.log)}
Started(r, name) == <<"start", name>> \in Events(r)
Committed(r, name) == <<"commit", name>> \in Events(r)
Raised(r, name) == <<"raise", name>> \in Events(r)

HasError(x) == IsDict(x) /\ HasKey(x, K_error)

\* ------------------------------------------------------------------ claims

\* C1 (as stated): process_file on content whose Document is already stored in
\* a terminal status (completed or error) is a no-op: the step after the file
\* was read leaves the store as it is and starts no stage.
C1_TerminalReingestIsNoOp ==
    [][\A w \in Workers :
        (run[w].pc = "save" /\ run'[w].pc # "save" /\ Terminal(DocOf(w)))
            => (collection' = collection /\ run'[w].pc # "agents")]_vars

\* C2: the store holds at most one Document per content, and the id of every
\* Document is the fingerprint of its content alone.
C2_OneDocumentPerFingerprint ==
    /\ \A d \in collection : d["_id"] = md5(d["content"])
    /\ \A d1, d2 \in collection : d1["content"] = d2["content"] => d1 = d2

\* identical content was ingested twice, under two file names
C2_Witness ==
    \E w \in Workers :
        /\ run[w].pc = "agents"
        /\ run[w].filename = "b.txt"
        /\ run[w].content = "c1"
        /\ "a.txt" \in DOMAIN error_dir
        /\ error_dir["a.txt"] = TextFile("c1")
        /\ Cardinality(collection) = 1

\* C3 (as stated): when the Finalizer's record contains an error field the
\* Document never becomes completed and the Distributor is not invoked.
C3_FinalizerErrorQuarantines ==
    \A w \in Workers :
        HasError(run[w].final_result) =>
            /\ DocOf(w) # None => DocOf(w)["status"] # "completed"
            /\ <<"distribute">> \notin Events(run[w])

\* C4 (as stated): a final_decision that is present contains no error field.
C4_FinalDecisionHasNoError ==
    \A d \in collection :
        "final_decision" \in DOMAIN d => ~HasError(d["final_decision"])

\* a stage commit by worker w in this step, and the namespace it writes
StageCommit(w) ==
    \/ run[w].pc = "agents" /\ run'[w].pc = "refresh"
    \/ run[w].pc = "finalizer" /\ run'[w].pc = "set_final"
StageName(w) == IF run[w].pc = "agents" THEN agents[run[w].i] ELSE finalizer

OnlyNamespaceChanged(old, new, name) ==
    /\ DOMAIN new = DOMAIN old
    /\ \A k \in DOMAIN old \ {"agents_results"} : new[k] = old[k]
    /\ DOMAIN new["agents_results"] = DOMAIN old["agents_results"] \cup {name}
    /\ \A n \in DOMAIN old["agents_results"] \ {name} :
            new["agents_results"][n] = old["agents_results"][n]

\* C5: a stage commit (BaseAgent.process of stage N) changes agents_results[N]
\* of the Document and nothing else: the other stages' results, content,
\* status, filename and created_at keep their values, and so does every other
\* Document.
C5_NamespaceIsolation ==
    [][\A w \in Workers :
        StageCommit(w) =>
            /\ DocOf(w) # None
            /\ DocOfNext(w) # None
            /\ collection' \ {DocOfNext(w)} = collection \ {DocOf(w)}
            /\ OnlyNamespaceChanged(DocOf(w), DocOfNext(w), StageName(w))]_vars

\* stage B (sensitivity) has just committed and stage A's result is in place
C5_Witness ==
    \E w \in Workers :
        /\ run[w].pc = "refresh"
        /\ run[w].i = 2
        /\ DocOf(w) # None
        /\ DOMAIN DocOf(w)["agents_results"] = {"urgency_agent", "sensitivity_agent"}

PostLoopPcs ==
    {"finalizer", "set_final", "reload", "distribute", "no_recipients",
     "copy", "meta", "remove", "handler", "handler_move"}

\* the attempt of r is past the k-th classification stage
Passed(r, k) ==
    \/ r.pc = "agents" /\ r.i > k
    \/ r.pc = "refresh" /\ r.i >= k
    \/ r.pc \in PostLoopPcs
    \/ r.pc \in {"loop", "crashed"} /\ <<"save">> \in Events(r)

\* C6: a classification stage that faults (error record, or an exception)
\* never stops the pipeline: every stage the loop is past was started and
\* either committed its result or raised, a committed result is in the
\* Document, and no attempt that entered the loop ends before the Finalizer
\* was invoked.
C6_PartialFailureSurvival ==
    \A w \in Workers :
        LET r == run[w] IN
        /\ \A k \in 1..Len(agents) :
              Passed(r, k) =>
                /\ Started(r, agents[k])
                /\ Committed(r, agents[k]) # Raised(r, agents[k])
                /\ (Committed(r, agents[k]) /\ DocOf(w) # None)
                      => agents[k] \in DOMAIN DocOf(w)["agents_results"]
        /\ (r.pc \in PostLoopPcs \ {"finalizer"}
              \/ (r.pc \in {"loop", "crashed"} /\ <<"save">> \in Events(r)))
            => Started(r, finalizer)

\* the second stage raised, the third committed, the Finalizer was invoked
C6_Witness ==
    \E w \in Workers :
        /\ Raised(run[w], agents[2])
        /\ Committed(run[w], agents[3])
        /\ Started(run[w], finalizer)

\* C7 (as stated): after the loop every registered classification stage has an
\* entry in agents_results, and a stage that raised has an error record there.
C7_EveryStageHasEntry ==
    \A w \in Workers :
        (run[w].pc \in PostLoopPcs /\ DocOf(w) # None) =>
            \A k \in 1..Len(agents) :
                /\ agents[k] \in DOMAIN DocOf(w)["agents_results"]
                /\ Raised(run[w], agents[k])
                      => HasError(DocOf(w)["agents_results"][agents[k]])

\* _distribute and the except clause that a failure inside it reaches
DistributionPcs ==
    {"distribute", "no_recipients", "copy", "meta", "remove", "handler", "handler_move"}

\* C8 (as stated): once the Document is completed, no later step of the same
\* attempt changes its status: a failure during distribution leaves it completed.
C8_CompletedStaysCompleted ==
    [][\A w \in Workers :
        (/\ run[w].pc \in DistributionPcs
         /\ DocOf(w) # None
         /\ DocOf(w)["status"] = "completed")
            => (DocOfNext(w) # None /\ DocOfNext(w)["status"] = "completed")]_vars

\* the recipients named by the final decision of the Document
FinalRecipients(d) == recipients_of(d["final_decision"]).v
SlugsOf(recips) == {slugify(recips[j].v) : j \in 1..Len(recips)}

\* the delivery locations written by the attempt of r
LocationsWritten(r) == {e[2] : e \in {x \in Events(r) : x[1] \in {"copy", "meta"}}}

\* C9: when finalization succeeded and the final decision names no recipient,
\* the attempt ends with the source artifact in the error directory and out of
\* the feed, no recipient location written, and the Document completed with
\* the Finalizer's record as its final_decision.
C9_NoRecipientQuarantine ==
    \A w \in Workers :
        LET r == run[w] IN
        r.outcome = "no_recipients" =>
            /\ r.file_path \notin DOMAIN feed
            /\ r.file_path \in DOMAIN error_dir
            /\ error_dir[r.file_path] = TextFile(r.content)
            /\ recipients_dir = r.dirs0
            /\ LocationsWritten(r) = {}
            /\ DocOf(w) # None
            /\ DocOf(w)["status"] = "completed"
            /\ "final_decision" \in DOMAIN DocOf(w)
            /\ DocOf(w)["final_decision"] = r.final_result
            /\ FinalRecipients(DocOf(w)) = <<>>

\* an attempt ended on the no-recipient path with a well-formed decision
C9_Witness ==
    \E w \in Workers :
        /\ run[w].outcome = "no_recipients"
        /\ run[w].final_result = FR_none

\* for every recipient, the copy and the metadata record are in its location
Delivered(w) ==
    LET r == run[w]
        d == DocOf(w)
    IN  \A j \in 1..Len(FinalRecipients(d)) :
            LET slug == slugify(FinalRecipients(d)[j].v) IN
            /\ slug \in DOMAIN recipients_dir
            /\ r.filename \in DOMAIN recipients_dir[slug]
            /\ recipients_dir[slug][r.filename] = TextFile(r.content)
            /\ (r.filename \o ".json") \in DOMAIN recipients_dir[slug]
            /\ recipients_dir[slug][r.filename \o ".json"] =
                  JsonFile([original_filename |-> r.filename,
                            id |-> d["_id"],
                            metadata |-> d["final_decision"]])

\* C10 (as stated): after a distribution that completed, every recipient's
\* location holds the copy and the metadata record, and a list of two distinct
\* recipients makes exactly two locations receive them.
C10_TwoDistinctRecipientsTwoLocations ==
    \A w \in Workers :
        run[w].outcome = "distributed" =>
            /\ Delivered(w)
            /\ (/\ Len(FinalRecipients(DocOf(w))) = 2
                /\ FinalRecipients(DocOf(w))[1] # FinalRecipients(DocOf(w))[2])
                  => Cardinality(LocationsWritten(run[w])) = 2

\* C10 (amended): after a distribution that completed, every recipient's
\* location holds the copy and the metadata record (original name, id, the full
\* final decision); the locations written are exactly the slugs of the
\* recipients, so two recipients receive in two locations when their slugs
\* differ.
C10_FanOutCompleteness ==
    \A w \in Workers :
        run[w].outcome = "distributed" =>
            /\ Delivered(w)
            /\ LocationsWritten(run[w]) = SlugsOf(FinalRecipients(DocOf(w)))
            /\ (/\ Len(FinalRecipients(DocOf(w))) = 2
                /\ slugify(FinalRecipients(DocOf(w))[1].v)
                      # slugify(FinalRecipients(DocOf(w))[2].v))
                  => Cardinality(LocationsWritten(run[w])) = 2

\* a distribution to Legal and All Employees completed
C10_Witness ==
    \E w \in Workers :
        /\ run[w].outcome = "distributed"
        /\ run[w].final_result = FR_two
        /\ DOMAIN recipients_dir = {T_legal, slugify(T_AllEmployees)}

\* the copy and the metadata record of every recipient were written by the
\* attempt of r
AllRecipientsWritten(r, recips) ==
    \A j \in 1..Len(recips) :
        /\ <<"copy", slugify(recips[j].v)>> \in Events(r)
        /\ <<"meta", slugify(recips[j].v)>> \in Events(r)

\* the step of worker w is os.remove of the source artifact in _distribute
RemovesSource(w) ==
    /\ run[w].pc = "remove"
    /\ run[w].file_path \in DOMAIN feed
    /\ run[w].file_path \notin DOMAIN feed'

\* C11: distribution removes the source artifact from the feed only after the
\* copy and the metadata record were written for every recipient of the final
\* decision, and no recipient write of the attempt comes after the removal:
\* every step that writes a recipient location finds the source in the feed.
C11_RemoveAfterEveryRecipientWrite ==
    [][\A w \in DOMAIN run :
        /\ RemovesSource(w) =>
              /\ AllRecipientsWritten(run[w], FinalRecipients(DocOf(w)))
              /\ Delivered(w)
        /\ (run[w].pc \in {"copy", "meta"} /\ recipients_dir' # recipients_dir) =>
              /\ <<"remove">> \notin Events(run[w])
              /\ run[w].file_path \in DOMAIN feed]_vars

\* the source was removed after two recipient locations were written
C11_Witness ==
    \E w \in DOMAIN run :
        /\ run[w].log # <<>>
        /\ run[w].log[Len(run[w].log)] = <<"remove">>
        /\ Cardinality(LocationsWritten(run[w])) = 2
        /\ run[w].file_path \notin DOMAIN feed

\* the attempt of r left the recipient loop of _distribute by an exception of
\* shutil.copy2 or of the metadata write
FanOutFailed(r) ==
    /\ r.exc \in {"copy2", "open"}
    /\ r.pc \in {"handler", "handler_move", "loop", "crashed"}

InFeed(r) ==
    r.file_path \in DOMAIN feed /\ feed[r.file_path] = TextFile(r.content)
InErrorDir(r) ==
    r.file_path \in DOMAIN error_dir /\ error_dir[r.file_path] = TextFile(r.content)

\* C12 (as stated): after a failure partway through the fan-out, the attempt
\* ends with the source artifact still in the feed.
C12_FanOutFailureLeavesSourceInFeed ==
    \A w \in DOMAIN run :
        (FanOutFailed(run[w]) /\ run[w].pc \in {"loop", "crashed"}) => InFeed(run[w])

\* C12 (amended): a failure partway through the fan-out never deletes the
\* source artifact: os.remove is not reached and the artifact, content
\* unchanged, is in the feed or in the error directory; when the except clause
\* completes, the artifact has left the feed and is in the error directory.
C12_FanOutFailureMovesSourceToErrorDir ==
    \A w \in DOMAIN run :
        FanOutFailed(run[w]) =>
            /\ <<"remove">> \notin Events(run[w])
            /\ InFeed(run[w]) \/ InErrorDir(run[w])
            /\ run[w].outcome = "quarantined" =>
                  /\ run[w].file_path \notin DOMAIN feed
                  /\ InErrorDir(run[w])

\* the metadata write raised after a copy was written, and the except clause
\* completed
C12_Witness ==
    \E w \in DOMAIN run :
        /\ run[w].exc = "open"
        /\ run[w].outcome = "quarantined"
        /\ LocationsWritten(run[w]) # {}

\* the committed verdict of the sensitivity agent is the top of its scale
\* (classifiers.py:41: "Score from 0 (Not sensitive) to 10 (Highly sensitive)")
HighlySensitive(d) ==
    /\ d # None
    /\ "sensitivity_agent" \in DOMAIN d["agents_results"]
    /\ DictGet(d["agents_results"]["sensitivity_agent"], K_score, JNull) = JInt(10)

\* the committed final decision names 'All Employees' as a recipient
NamesAllEmployees(d) ==
    /\ "final_decision" \in DOMAIN d
    /\ IsDict(d["final_decision"])
    /\ \E j \in 1..Len(FinalRecipients(d)) :
          FinalRecipients(d)[j] = JStr(T_AllEmployees)

\* C13 (as stated): a Document whose committed sensitivity verdict is highly
\* sensitive never has a committed final_decision naming 'All Employees', and
\* no attempt on it writes the location of 'All Employees'.
C13_SafetyOverride ==
    /\ \A d \in collection : HighlySensitive(d) => ~NamesAllEmployees(d)
    /\ \A w \in DOMAIN run :
          HighlySensitive(DocOf(w)) =>
              slugify(T_AllEmployees) \notin LocationsWritten(run[w])

\* C14 (as stated): once a Document is stored, no step changes its content or
\* its created_at.
C14_ContentAndCreatedAtImmutable ==
    [][\A d \in collection :
        \E e \in collection' :
            /\ e["_id"] = d["_id"]
            /\ e["content"] = d["content"]
            /\ e["created_at"] = d["created_at"]]_vars

\* C15 (as stated): the snapshot that process_file is about to pass to the
\* Finalizer holds, for every classification stage that committed in this
\* attempt, exactly the record that stage committed.
C15_FinalizerSeesEveryCommit ==
    \A w \in DOMAIN run :
        LET r == run[w] IN
        (r.pc = "finalizer" /\ r.news_item # None) =>
            \A k \in 1..Len(agents) :
                Committed(r, agents[k]) =>
                    /\ agents[k] \in DOMAIN r.news_item["agents_results"]
                    /\ r.news_item["agents_results"][agents[k]]
                          = DocOf(w)["agents_results"][agents[k]]

\* the persistence calls of the finalization phase, as the except clause of
\* process_file names the one that raised
StoreCalls == {"finalizer.process", "update_one", "get_news_item"}

\* C16 (as stated): a persistence operation that fails aborts the attempt and
\* reaches the caller of process_file: after a stage commit that raised no
\* further stage starts, and a failure of the Finalizer's commit, of the
\* final-decision update or of the reload is not caught inside process_file.
C16_StoreFailureAbortsAttempt ==
    \A w \in DOMAIN run :
        LET r == run[w] IN
        /\ \A k \in 1..Len(agents) :
              Raised(r, agents[k]) =>
                  /\ \A j \in (k + 1)..Len(agents) : ~Started(r, agents[j])
                  /\ ~Started(r, finalizer)
        /\ r.exc \in StoreCalls => r.pc = "crashed"

\* C17 (as stated): a generation call that does not return is cut off and
\* treated as a stage failure: a worker waiting in such a call always has a
\* next step, so its attempt goes on to a terminal outcome.
C17_BlockedCallTimesOut ==
    \A w \in DOMAIN run : run[w].pc = "blocked" => ENABLED WorkerStep(w)

\* process_file was left, by return or by exception, after it read the artifact
Finished(r) ==
    /\ r.pc \in {"loop", "crashed"}
    /\ r.outcome \in {"distributed", "no_recipients", "quarantined", "crashed"}

\* C18 (as stated): after any finished attempt the artifact is either delivered
\* to every recipient and removed from the feed, or in the error directory and
\* out of the feed.
C18_NoAmbiguousArtifact ==
    \A w \in DOMAIN run :
        Finished(run[w]) =>
            \/ /\ run[w].outcome = "distributed"
               /\ run[w].file_path \notin DOMAIN feed
               /\ Delivered(w)
            \/ /\ run[w].file_path \notin DOMAIN feed
               /\ InErrorDir(run[w])

\* no mapping key of x, at any depth, contains '.' or '$'
RECURSIVE KeysClean(_)
KeysClean(x) ==
    IF IsDict(x)
    THEN \A i \in 1..Len(x.v) :
            /\ \A j \in 1..Len(x.v[i][1]) : x.v[i][1][j] \notin {".", "$"}
            /\ KeysClean(x.v[i][2])
    ELSE IF IsList(x) THEN \A i \in 1..Len(x.v) : KeysClean(x.v[i])
    ELSE TRUE

\* the key k with every '.' and '$' replaced by '_'
CleanKey(k) == [j \in 1..Len(k) |-> IF k[j] \in {".", "$"} THEN "_" ELSE k[j]]

\* y is x up to mapping keys: a scalar is the same, a sequence has the same
\* length with its elements in order, a mapping has the cleaned keys of x and
\* each value comes from an entry of x with that key
RECURSIVE ShapeKept(_, _)
ShapeKept(x, y) ==
    IF IsDict(x)
    THEN /\ IsDict(y)
         /\ \A j \in 1..Len(x.v) : HasKey(y, CleanKey(x.v[j][1]))
         /\ \A i \in 1..Len(y.v) : \E j \in 1..Len(x.v) :
                /\ y.v[i][1] = CleanKey(x.v[j][1])
                /\ ShapeKept(x.v[j][2], y.v[i][2])
    ELSE IF IsList(x)
    THEN /\ IsList(y)
         /\ Len(y.v) = Len(x.v)
         /\ \A i \in 1..Len(x.v) : ShapeKept(x.v[i], y.v[i])
    ELSE y = x

Active(r) == r.outcome = "running"

\* the step is the commit of namespace n of Document id by some worker
CommitsNamespace(id, n) ==
    \E w \in DOMAIN run :
        StageCommit(w) /\ StageName(w) = n /\ run[w].file_hash = id

\* the step is the initial upsert (save_news_item) of Document id by some worker
Upserts(id) ==
    \E w \in DOMAIN run :
        run[w].pc = "save" /\ run'[w].pc = "agents" /\ run[w].file_hash = id

\* C20 (as stated): while two runs work on the same Document id, no step
\* removes or overwrites a stage result already committed for that id, except
\* the commit of that same stage.
C20_NoStepClobbersCommittedResult ==
    [][\A v \in DOMAIN run, w \in DOMAIN run :
        (/\ v # w
         /\ Active(run[v]) /\ Active(run[w])
         /\ run[v].file_hash = run[w].file_hash
         /\ DocOf(v) # None)
        => \A n \in DOMAIN DocOf(v)["agents_results"] :
              \/ CommitsNamespace(run[v].file_hash, n)
              \/ /\ DocOfNext(v) # None
                 /\ n \in DOMAIN DocOfNext(v)["agents_results"]
                 /\ DocOfNext(v)["agents_results"][n] = DocOf(v)["agents_results"][n]]_vars

\* C20 (amended): with two runs interleaved on the same Document id, a stage
\* commit changes its own namespace only; a committed result of a Document
\* keeps its value in every step except a commit of the same namespace and
\* the initial upsert of a run, which replaces the Document by one with empty
\* agents_results.
C20_OnlyUpsertClobbers ==
    [][\A d \in collection : \E e \in collection' :
        /\ e["_id"] = d["_id"]
        /\ IF Upserts(d["_id"]) THEN e["agents_results"] = <<>>
           ELSE \A n \in DOMAIN d["agents_results"] :
                  /\ n \in DOMAIN e["agents_results"]
                  /\ \/ e["agents_results"][n] = d["agents_results"][n]
                     \/ CommitsNamespace(d["_id"], n)]_vars

\* both runs are inside the stage loop on the same Document, one stage apart,
\* and the Document holds the results of both stages
C20_Witness ==
    \E v \in DOMAIN run, w \in DOMAIN run :
        /\ run[v].pc = "refresh" /\ run[v].i = 1
        /\ run[w].pc = "refresh" /\ run[w].i = 2
        /\ run[v].file_hash = run[w].file_hash
        /\ DOMAIN DocOf(w)["agents_results"] = {"urgency_agent", "sensitivity_agent"}

\* the attempt of r so far is the happy path: every classification stage
\* committed its well-formed record, the Finalizer committed a well-formed
\* record naming a recipient, and no call raised in the finalization phase
HappyPath(w) ==
    LET r == run[w] IN
    /\ r.pc \notin {"crashed", "blocked"}
    /\ r.exc = ""
    /\ \A k \in 1..Len(agents) : Committed(r, agents[k])
    /\ Committed(r, finalizer)
    /\ r.final_result \in {FR_two, FR_same_slug}
    /\ DocOf(w) # None
    /\ \A k \in 1..Len(agents) :
          /\ agents[k] \in DOMAIN DocOf(w)["agents_results"]
          /\ DocOf(w)["agents_results"][agents[k]] = sanitize_mongo_keys(Verdict(agents[k]))

\* C21: on the happy path the attempt goes through completion and distribution
\* only, and ends with the Document completed, final_decision equal to the
\* Finalizer's record, a copy and a metadata record in each recipient's
\* location, the source out of the feed and the error directory as it was.
C21_HappyPath ==
    \A w \in DOMAIN run :
        HappyPath(w) =>
            /\ run[w].pc \in {"set_final", "reload", "distribute", "copy", "meta",
                               "remove", "loop"}
            /\ error_dir = run[w].errors0
            /\ run[w].pc = "loop" =>
                  /\ run[w].outcome = "distributed"
                  /\ DocOf(w)["status"] = "completed"
                  /\ "error" \notin DOMAIN DocOf(w)
                  /\ DocOf(w)["final_decision"] = run[w].final_result
                  /\ Delivered(w)
                  /\ run[w].file_path \notin DOMAIN feed

\* a happy-path attempt ended
C21_Witness ==
    \E w \in DOMAIN run :
        /\ HappyPath(w)
        /\ run[w].pc = "loop"
        /\ run[w].final_result = FR_same_slug

\* the latest call is one of the two tool methods of the client
ToolMethodCalled == mcp.call \in {"get_recipient_suggestion", "improve_document"}

\* session.call_tool raised / its text did not parse as JSON
CallFailed == mcp.result.raised
ParseFailed ==
    /\ ~mcp.result.raised
    /\ mcp.result.content # <<>>
    /\ ~json_loads(mcp.result.content[1]).ok

\* C22: inside a connect() context, get_recipient_suggestion and
\* improve_document return a dict, never raise and never return None; when the
\* tool call raised or its text did not parse, the dict has an error field,
\* with recipients = [] resp. improved_content equal to the input content.
C22_ToolMethodsAlwaysReturnDict ==
    (mcp.ctx = "in" /\ ToolMethodCalled) =>
        /\ mcp.ret.kind = "return"
        /\ IsDict(mcp.ret.v)
        /\ (CallFailed \/ ParseFailed) =>
              /\ HasKey(mcp.ret.v, K_error)
              /\ mcp.call = "get_recipient_suggestion" =>
                    DictGet(mcp.ret.v, K_recipients, JNull) = JList(<<>>)
              /\ mcp.call = "improve_document" =>
                    DictGet(mcp.ret.v, K_improved_content, JNull) = JStr(mcp.content)

\* the answer to get_recipient_suggestion on a document of special characters
\* did not parse
C22_Witness ==
    /\ mcp.ctx = "in"
    /\ mcp.call = "get_recipient_suggestion"
    /\ ParseFailed
    /\ mcp.content = <<"@","#","$","%","'">>

\* C23: inside a connect() context list_tools returns exactly the two tools
\* the server declares, and a call of any other tool name on the server raises
\* the unknown-tool error.
C23_ExactlyTwoTools ==
    /\ (mcp.ctx = "in" /\ mcp.call = "list_tools") =>
          mcp.ret = Returned({"get_recipient_suggestion", "improve_document"})
    /\ (mcp.call = "call_tool"
          /\ mcp.name \notin {"get_recipient_suggestion", "improve_document"}) =>
          mcp.ret = Raises(T_UnknownTool)

\* the server was asked for a tool it does not declare
C23_Witness ==
    /\ mcp.call = "call_tool"
    /\ mcp.name = "delete_document"
    /\ mcp.ret.kind = "raise"
    /\ Cardinality(mcp.available_tools) = 2

\* C27 (as stated): the session is set exactly while a connect() context is
\* active, and the three methods raise RuntimeError when called before
\* connect() is entered or after its context has exited.
C27_SessionOnlyInsideContext ==
    /\ mcp.session <=> mcp.ctx = "in"
    /\ (mcp.ctx # "in" /\ (ToolMethodCalled \/ mcp.call = "list_tools")) =>
          mcp.ret = Raises("RuntimeError")

\* C28 (as stated): when the server tool failed internally, the client returns
\* a dict whose error field is the server's own error description.
C28_ServerErrorReachesCaller ==
    (ToolMethodCalled /\ mcp.server_error # JNull) =>
        /\ mcp.ret.kind = "return"
        /\ IsDict(mcp.ret.v)
        /\ DictGet(mcp.ret.v, K_error, JNull) = mcp.server_error

\* the stages started by the attempt of r, in the order of their start
IsStart(e) == e[1] = "start"
StartsOf(r) == SelectSeq(r.log, IsStart)
DeclaredOrder == agents \o <<finalizer>>

\* stage name has a commit or a raise before position j of the log of r
FinishedBefore(r, name, j) ==
    \E i \in 1..(j - 1) : r.log[i] \in {<<"commit", name>>, <<"raise", name>>}

\* C24: the stages of an attempt start in the declared order urgency,
\* sensitivity, topic, type, recipient, finalizer, each at most once; the
\* Finalizer starts only after every classification stage has committed or
\* failed, and an attempt that is past the stage loop has started it.
C24_DeclaredStageOrder ==
    \A w \in DOMAIN run :
        LET r == run[w] IN
        /\ Len(StartsOf(r)) <= Len(DeclaredOrder)
        /\ \A j \in 1..Len(StartsOf(r)) : StartsOf(r)[j][2] = DeclaredOrder[j]
        /\ \A j \in 1..Len(r.log) :
              r.log[j] = <<"start", finalizer>> =>
                  \A k \in 1..Len(agents) : FinishedBefore(r, agents[k], j)
        /\ (\/ r.pc \in PostLoopPcs \ {"finalizer"}
            \/ r.outcome \in {"distributed", "no_recipients", "quarantined"})
              => Started(r, finalizer)

\* the Finalizer was started in an attempt in which a classification stage
\* raised
C24_Witness ==
    \E w \in DOMAIN run :
        /\ Started(run[w], finalizer)
        /\ \E k \in 1..Len(agents) : Raised(run[w], agents[k])

\* the records the Finalizer can commit
FinalizerRecords ==
    {sanitize_mongo_keys(finalizer_execute(ok, answer)) :
        ok \in BOOLEAN, answer \in FinalizerResponses}

\* C25: whatever classification namespaces are absent from the snapshot or
\* hold an error field, a Finalizer call in which neither the generation nor
\* the store fails commits a record and goes on: nothing raises.
C25_FinalizerToleratesMissingVerdicts ==
    [][\A w \in DOMAIN run :
        (/\ run[w].pc = "finalizer"
         /\ run'[w].pc # "finalizer"
         /\ faults' = faults)
        => /\ run'[w].pc = "set_final"
           /\ run'[w].exc = ""
           /\ Committed(run'[w], finalizer)
           /\ run'[w].final_result \in FinalizerRecords
           /\ DocOfNext(w)["agents_results"][finalizer] = run'[w].final_result]_vars

\* the Finalizer committed on a snapshot with one namespace absent and another
\* holding an error field
C25_Witness ==
    \E w \in DOMAIN run :
        LET ar == run[w].news_item["agents_results"] IN
        /\ run[w].pc = "set_final"
        /\ \E k \in 1..Len(agents) : agents[k] \notin DOMAIN ar
        /\ \E k \in 1..Len(agents) : agents[k] \in DOMAIN ar /\ HasError(ar[agents[k]])

\* C26: when the source artifact cannot be read, process_file returns to the
\* loop of main with the store, the feed, the error directory and the
\* recipient directories as they were, and no stage started.
C26_UnreadableFileHasNoEffect ==
    [][\A w \in DOMAIN run :
        /\ (run[w].pc = "loop" /\ run'[w] # run[w] /\ run'[w].outcome = "unreadable")
              => /\ run'[w].pc = "loop"
                 /\ run'[w].log = <<>>
                 /\ collection' = collection
                 /\ feed' = feed
                 /\ error_dir' = error_dir
                 /\ recipients_dir' = recipients_dir
        /\ run[w].outcome = "unreadable" => run[w].pc = "loop"]_vars

\* a file that is in the feed could not be read
C26_Witness ==
    \E w \in DOMAIN run :
        /\ run[w].outcome = "unreadable"
        /\ feed # <<>>
        /\ collection = {}

\* ---- C29: a completed document's final_decision is the record stored under
\* the finalizer's namespace of agents_results
C29_FinalDecisionIsFinalizerRecord ==
    \A d \in collection :
        d["status"] = "completed"
            => /\ "final_decision" \in DOMAIN d
               /\ finalizer \in DOMAIN d["agents_results"]
               /\ d["final_decision"] = d["agents_results"][finalizer]

\* a completed document whose decision names recipients
C29_Witness ==
    \E d \in collection :
        /\ d["status"] = "completed"
        /\ d["final_decision"] = sanitize_mongo_keys(finalizer_execute(TRUE, FR_two))
        /\ d["agents_results"][finalizer] = d["final_decision"]

\* ---- C30: every attempt starts from a clean document: right after the
\* initial upsert the stored document has status "processing", empty
\* agents_results and no final_decision, and what the single worker hands to
\* the finalizer holds no decision and only results committed in this attempt
Clean(d) ==
    /\ d["status"] = "processing"
    /\ d["agents_results"] = <<>>
    /\ "final_decision" \notin DOMAIN d

CommittedInAttempt(r, name) ==
    \E j \in 1..Len(r.log) : r.log[j] = <<"commit", name>>

NothingLeftOver(r) ==
    /\ r.news_item # None
    /\ "final_decision" \notin DOMAIN r.news_item
    /\ \A name \in DOMAIN r.news_item["agents_results"] : CommittedInAttempt(r, name)

C30_AttemptStartsClean ==
    [][\A w \in DOMAIN run :
        /\ (run[w].pc = "save" /\ run'[w].pc = "agents")
              => /\ Matching(collection', run[w].file_hash) # {}
                 /\ \A d \in Matching(collection', run[w].file_hash) : Clean(d)
        /\ (run[w].pc # "finalizer" /\ run'[w].pc = "finalizer")
              => NothingLeftOver(run'[w])]_vars

\* the finalizer is reached with results of this attempt, on content that an
\* earlier attempt has completed and delivered
C30_Witness ==
    \E w \in DOMAIN run :
        LET r == run[w] IN
        /\ r.pc = "finalizer"
        /\ r.news_item # None
        /\ r.news_item["agents_results"] # <<>>
        /\ \E slug \in DOMAIN r.dirs0 :
              \E n \in DOMAIN r.dirs0[slug] :
                  /\ r.dirs0[slug][n].t = "json"
                  /\ r.dirs0[slug][n].v.id = r.file_hash

\* y has, at every depth, as many entries in each mapping as x
RECURSIVE EntriesKept(_, _)
EntriesKept(x, y) ==
    IF IsDict(x)
    THEN /\ IsDict(y)
         /\ Len(y.v) = Len(x.v)
         /\ \A i \in 1..Len(x.v) : EntriesKept(x.v[i][2], y.v[i][2])
    ELSE IF IsList(x)
    THEN /\ IsList(y)
         /\ Len(y.v) = Len(x.v)
         /\ \A i \in 1..Len(x.v) : EntriesKept(x.v[i], y.v[i])
    ELSE TRUE

\* ---- C31: sanitizing loses no data: every mapping, at every depth, has as
\* many entries after _sanitize_mongo_keys as before, so two distinct keys are
\* never rewritten to the same key
C31_SanitizingLosesNoEntry ==
    san.phase = "done" => EntriesKept(san.data, san.result)

\* ---- C32: _sanitize_mongo_keys is idempotent, and a value none of whose
\* mapping keys contains '.' or '$' is returned equal to the argument
C32_SanitizerIdempotent ==
    san.phase = "done" =>
        /\ sanitize_mongo_keys(san.result) = san.result
        /\ KeysClean(san.data) => san.result = san.data

\* a mapping with a '.' key and a key without '.' or '$' was sanitized and
\* came back changed
C32_Witness ==
    /\ san.phase = "done"
    /\ IsDict(san.data)
    /\ HasKey(san.data, K_dotted)
    /\ HasKey(san.data, K_score)
    /\ san.result # san.data
    /\ HasKey(san.result, K_score)

\* the fingerprint of the Document a stored file belongs to: the md5 of an
\* article's content, the id recorded in a metadata file
FingerprintOf(file) == IF file.t = "text" THEN md5(file.v) ELSE file.v.id

\* every file of the directory is still there, for the same Document
KeepsFiles(dir, dir2) ==
    \A n \in DOMAIN dir :
        /\ n \in DOMAIN dir2
        /\ FingerprintOf(dir2[n]) = FingerprintOf(dir[n])

\* ---- C33: no step replaces a file of a recipient directory or of the error
\* directory by a file of a Document with a different fingerprint, also when
\* the two files have the same name
C33_NoArtifactOverwritten ==
    [][/\ \A slug \in DOMAIN recipients_dir :
              /\ slug \in DOMAIN recipients_dir'
              /\ KeepsFiles(recipients_dir[slug], recipients_dir'[slug])
       /\ KeepsFiles(error_dir, error_dir')]_vars

\* ---- C34: a failure while processing one artifact does not stop the loop of
\* main: the process never ends while another artifact is waiting in the feed,
\* on which process_file would then never be invoked
C34_FailureDoesNotStopLoop ==
    \A w \in DOMAIN run :
        run[w].pc = "crashed"
            => ~\E n \in DOMAIN feed \cap Names : n # run[w].file_path

\* ---- C35: Database is a singleton: every Database() gives the same
\* instance, _initialize runs at most once, and every instance given has a
\* usable collection, also after a construction whose initialization failed
C35_SingletonFullyInitialized ==
    /\ db.inits <= 1
    /\ \A h \in 1..Len(db.handles) :
          ~db.handles[h].raised =>
              /\ db.handles[h].ref = db.instance
              /\ "collection" \in db.objects[db.handles[h].ref]
              /\ db.handles[h].got # "AttributeError"

====
